---- MODULE Spec2Model ----
(***************************************************************************)
(* Model of src/sax_import/sax_import.py: the SAXParser content handler    *)
(* and the parse importer that drives it.                                  *)
(*                                                                         *)
(* SAXParser has no __init__: text, annotations and start_pos are mutable  *)
(* objects bound at class level (one list / defaultdict / dict per         *)
(* process), while text_len and open_tags are rebound by "+=" / "-=" and   *)
(* therefore become attributes of the instance that received the event.    *)
(* parse() is synchronous, so documents are parsed one after the other.    *)
(***************************************************************************)
EXTENDS Integers, Sequences, FiniteSets, TLC

\* ---------------------------------------------------------------- bounds
MaxDocs == 2
MaxEvents == 4
MaxDepth == 2
MaxRuns == 2
MaxTags == 2
MaxFiles == 2

Parsers == 1..MaxDocs

\* the handler instances of the structure pass, one per run
Handlers == 1..MaxRuns

\* ------------------------------------------------- inputs of the events
Names == {"a", "b"}

\* attribute lists as AttributesImpl delivers them: (name, value) pairs
AttrLists == { <<>>, << <<"id", "1">>, <<"id2", "2">> >> }

Whitespace == {" ", "\n"}

\* character chunks: empty, blank, plain, content with inner whitespace
Chunks == { <<>>, <<" ", "\n">>, <<"x">>, <<"y", " ">> }

VARIABLES
    text,          \* SAXParser.text        (class level, list of chunks)
    annotations,   \* SAXParser.annotations (class level, ordered defaultdict)
    start_pos,     \* SAXParser.start_pos   (class level, dict name -> offset)
    text_len,      \* SAXParser.text_len    (per instance)
    open_tags,     \* SAXParser.open_tags   (per instance)
    pc,            \* position of each parse() call
    out,           \* what parse() wrote for each document
    stack,         \* producer: open elements of each document
    rootDone,      \* producer: the root element of the document is closed
    wf,            \* the events delivered to the instance so far are well formed
    nevents,       \* number of start/characters/orphan events delivered
    nstarts,       \* number of start events delivered (document order ids)
    last,          \* the event delivered last
    prov,          \* per key: start ids of the elements that produced the values
    seenAt,        \* per document: key -> id of the first start tag showing it
    firstIns,      \* keys in the order events first inserted them in the store
    ownText,       \* per document: the chunks appended by its own events
    ninst,         \* per document: number of elements of each name started
    h_annotations, \* XMLStructureHandler.annotations (class level list)
    hpc,           \* position of each run of a structure handler
    hdoc,          \* per run: the start tags delivered to the handler
    hresult,       \* per run: handler.annotations as read when the run ends
    gres           \* outcome of the last get_annotations / get_file_annotations

vars == <<text, annotations, start_pos, text_len, open_tags, pc, out, stack,
          rootDone, wf, nevents, nstarts, last, prov, seenAt, firstIns, ownText,
          ninst, h_annotations, hpc, hdoc, hresult, gres>>

\* the state of the structure pass
svars == <<h_annotations, hpc, hdoc, hresult, gres>>

\* the state of the importer, the last event apart
pvars == <<text, annotations, start_pos, text_len, open_tags, pc, out, stack,
           rootDone, wf, nevents, nstarts, prov, seenAt, firstIns, ownText, ninst>>

\* ------------------------------------------------------ pure operators

RECURSIVE Join(_)
\* ''.join(chunks)
Join(chunks) ==
    IF chunks = <<>> THEN <<>> ELSE Head(chunks) \o Join(Tail(chunks))

\* SAXParser.getText
getText == Join(text)

\* a pattern that finds whitespace anywhere in the chunk (re.search of \s)
blank_pattern_search(content) ==
    \E i \in 1..Len(content) : content[i] \in Whitespace

\* blank_pattern.match(content) for '^\s+$': one or more whitespace
\* characters from the start, then the end of the string or the position
\* just before a final newline
blank_pattern_match(content) ==
    \E k \in 1..Len(content) :
        /\ \A i \in 1..k : content[i] \in Whitespace
        /\ \/ k = Len(content)
           \/ (k = Len(content) - 1 /\ content[Len(content)] = "\n")

\* list(annotations.keys()): keys in insertion order
Keys(ann) == [i \in 1..Len(ann) |-> ann[i].key]

KeySet(ann) == {ann[i].key : i \in 1..Len(ann)}

\* position of a key in the dict
KeyIndex(ann, k) == CHOOSE i \in 1..Len(ann) : ann[i].key = k

\* the list stored under a key (empty when the key is absent)
Vals(ann, k) == IF k \in KeySet(ann) THEN ann[KeyIndex(ann, k)].vals ELSE <<>>

\* a dict that puts a missing key in front of the existing keys
DefaultGetFront(ann, k) ==
    IF k \in KeySet(ann) THEN ann ELSE <<[key |-> k, vals |-> <<>>]>> \o ann

\* defaultdict.__getitem__ / __missing__: a missing key is inserted with []
DefaultGet(ann, k) ==
    IF k \in KeySet(ann) THEN ann ELSE Append(ann, [key |-> k, vals |-> <<>>])

\* list.append on the list stored under k
ListAppend(vals, v) == Append(vals, v)

\* annotations[k].append(v)
AnnAppend(ann, k, v) ==
    LET d == DefaultGet(ann, k)
        i == KeyIndex(d, k)
    IN  [d EXCEPT ![i].vals = ListAppend(@, v)]

\* name + ":" + a
AttrKey(name, a) == name \o ":" \o a

\* a loop that stops after the first attribute of the tag
AppendAttrsFirstOnly(ann, name, attrs) ==
    IF attrs = <<>> THEN ann
    ELSE AnnAppend(ann, AttrKey(name, Head(attrs)[1]), Head(attrs)[2])

RECURSIVE AppendAttrs(_, _, _)
\* for a in attrs.getNames(): annotations[name + ":" + a].append(attrs.getValue(a))
AppendAttrs(ann, name, attrs) ==
    IF attrs = <<>> THEN ann
    ELSE AppendAttrs(AnnAppend(ann, AttrKey(name, Head(attrs)[1]), Head(attrs)[2]),
                     name, Tail(attrs))

\* dict.setdefault in place of the assignment: an existing entry is kept
PutStartKeep(sp, name, len) ==
    [n \in DOMAIN sp \cup {name} |-> IF n \in DOMAIN sp THEN sp[n] ELSE len]

\* self.start_pos[name] = self.text_len
PutStart(sp, name, len) ==
    [n \in DOMAIN sp \cup {name} |-> IF n = name THEN len ELSE sp[n]]

\* a counter that is taken down by two
DecTwice(n) == n - 2

\* self.open_tags -= 1
Dec(n) == n - 1

\* an exception that is caught and dropped inside the event loop
RaiseSwallowed(pcs, p) == pcs

\* an exception leaves the callback, SAX.parse and parse: nothing after
\* line 115 runs for this document
Raise(pcs, p) == [pcs EXCEPT ![p] = "failed"]

\* a length that counts one character too many per chunk
NewLenOffByOne(len, content) == len + Len(content) + 1

\* self.text_len += len(content)
NewLen(len, content) == len + Len(content)

\* a span whose end marker reads open_tags after the decrement
SpanOfAfterDecrement(start, depth, len) == << <<start, depth>>, <<len, depth - 1>> >>

\* the span appended by endElement
SpanOf(start, depth, len) == << <<start, depth>>, <<len, depth>> >>

\* ------------------------------------------------------------- ghosts

NoEvent == [kind |-> "none", p |-> 0, name |-> "", attrs |-> <<>>,
            chunk |-> <<>>, raised |-> FALSE, id |-> 0, off |-> 0,
            depth |-> 0, level |-> 0, content |-> <<>>,
            over |-> FALSE, dlo |-> -1, dhi |-> -1]

\* what out holds for a document before parse has written anything
NoOutput == [text |-> <<>>, structure |-> <<>>, annotations |-> <<>>]

Min(x, y) == IF x <= y THEN x ELSE y

Max(x, y) == IF x >= y THEN x ELSE y

\* the open elements of a document once a tag `name` opens inside them:
\* the ones of the same name have their pending start overwritten
MarkOver(st, name) ==
    [i \in 1..Len(st) |-> IF st[i].name = name THEN [st[i] EXCEPT !.over = TRUE]
                                                 ELSE st[i]]

\* the open elements of a document once the innermost one has closed with
\* the offsets lo..hi: the new innermost one gains a descendant span
PopInto(st, top, lo, hi) ==
    LET n == Len(st) - 1
        l == IF top.dlo < 0 THEN lo ELSE Min(lo, top.dlo)
        h == IF top.dhi < 0 THEN hi ELSE Max(hi, top.dhi)
    IN  [i \in 1..n |->
            IF i < n THEN st[i]
            ELSE [st[i] EXCEPT !.dlo = IF @ < 0 THEN l ELSE Min(@, l),
                               !.dhi = IF @ < 0 THEN h ELSE Max(@, h)]]

OpenNames(p) == {stack[p][i].name : i \in 1..Len(stack[p])}

ProvAppend(pr, k, id) ==
    IF k \in DOMAIN pr THEN [pr EXCEPT ![k] = Append(@, id)]
    ELSE [x \in DOMAIN pr \cup {k} |-> IF x = k THEN <<id>> ELSE pr[x]]

RECURSIVE ProvAttrs(_, _, _, _)
ProvAttrs(pr, name, attrs, id) ==
    IF attrs = <<>> THEN pr
    ELSE ProvAttrs(ProvAppend(pr, AttrKey(name, Head(attrs)[1]), id),
                   name, Tail(attrs), id)

AttrKeySet(name, attrs) == {AttrKey(name, attrs[i][1]) : i \in 1..Len(attrs)}

\* the keys a start tag shows, each mapped to the tag's id unless seen before
SeenAdd(sn, ks, id) ==
    [k \in DOMAIN sn \cup ks |-> IF k \in DOMAIN sn THEN sn[k] ELSE id]

\* names and name:attribute pairs occurring in the document of p
docKeys(p) == DOMAIN seenAt[p]

InSeq(sq, x) == \E i \in 1..Len(sq) : sq[i] = x

LogKey(sq, k) == IF InSeq(sq, k) THEN sq ELSE Append(sq, k)

RECURSIVE LogAttrKeys(_, _, _)
LogAttrKeys(sq, name, attrs) ==
    IF attrs = <<>> THEN sq
    ELSE LogAttrKeys(LogKey(sq, AttrKey(name, Head(attrs)[1])), name, Tail(attrs))

\* ---------------------------------------------------- structure pass

\* a start tag as the producer delivers it
Tags == [name : Names, attrs : AttrLists]

\* the source files of a corpus: documents of one or two start tags
StructDocs == {<<t>> : t \in Tags} \cup {<<t, u>> : t \in Tags, u \in Tags}

RECURSIVE FileLists(_)
\* self.source_dir.glob("**/*.xml"): up to n files
FileLists(n) ==
    IF n = 0 THEN {<<>>}
    ELSE FileLists(n - 1) \cup
         {Append(fs, d) : fs \in {x \in FileLists(n - 1) : Len(x) = n - 1},
                          d \in StructDocs}

NoCall == [fn |-> "none", files |-> <<>>, raised |-> FALSE, error |-> "",
           isNone |-> FALSE, value |-> <<>>]

RECURSIVE AttrKeyList(_, _)
\* name + ":" + a for a in attrs.getNames()
AttrKeyList(name, attrs) ==
    IF attrs = <<>> THEN <<>>
    ELSE <<AttrKey(name, Head(attrs)[1])>> \o AttrKeyList(name, Tail(attrs))

\* XMLStructure.get_file_annotations: the name XMLStructureHandler is bound
\* in the body of class XMLStructure only, which is no scope of the method,
\* so line 53 raises NameError before any parsing
GetFileAnnotations(file) ==
    [raised |-> TRUE, error |-> "NameError", value |-> <<>>]

RECURSIVE GetAnnotationsLoop(_, _)
\* for file in xml_files: annotations += self.get_file_annotations(file)
GetAnnotationsLoop(files, acc) ==
    IF files = <<>> THEN [raised |-> FALSE, error |-> "", value |-> acc]
    ELSE LET r == GetFileAnnotations(Head(files))
         IN  IF r.raised THEN r
             ELSE GetAnnotationsLoop(Tail(files), acc \o r.value)

\* --------------------------------------------------------------- Init

Init ==
    /\ text = <<>>
    /\ annotations = <<>>
    /\ start_pos = <<>>
    /\ text_len = [p \in Parsers |-> 0]
    /\ open_tags = [p \in Parsers |-> 0]
    /\ pc = [p \in Parsers |-> "new"]
    /\ out = [p \in Parsers |-> [text |-> <<>>, structure |-> <<>>, annotations |-> <<>>]]
    /\ stack = [p \in Parsers |-> <<>>]
    /\ rootDone = [p \in Parsers |-> FALSE]
    /\ wf = [p \in Parsers |-> TRUE]
    /\ nevents = 0
    /\ nstarts = 0
    /\ last = NoEvent
    /\ prov = <<>>
    /\ seenAt = [p \in Parsers |-> <<>>]
    /\ firstIns = <<>>
    /\ ownText = [p \in Parsers |-> <<>>]
    /\ ninst = [p \in Parsers |-> [n \in Names |-> 0]]
    /\ h_annotations = <<>>
    /\ hpc = [h \in Handlers |-> "new"]
    /\ hdoc = [h \in Handlers |-> <<>>]
    /\ hresult = [h \in Handlers |-> <<>>]
    /\ gres = NoCall

\* ------------------------------------------------------------ actions

\* parse: parser = SAXParser(); a new instance sees the class attributes
Construct(p) ==
    /\ UNCHANGED svars
    /\ pc[p] = "new"
    /\ \A q \in Parsers : q < p => pc[q] \in {"written", "failed"}
    /\ pc' = [pc EXCEPT ![p] = "parsing"]
    /\ last' = [NoEvent EXCEPT !.kind = "construct", !.p = p]
    /\ UNCHANGED <<text, annotations, start_pos, text_len, open_tags, out, stack,
                   rootDone, wf, nevents, nstarts, prov, seenAt, firstIns, ownText,
                   ninst>>

\* SAXParser.startElement
startElement(p, name, attrs) ==
    /\ UNCHANGED svars
    /\ pc[p] = "parsing"
    /\ nevents < MaxEvents
    /\ Len(stack[p]) < MaxDepth
    /\ stack[p] = <<>> => ~rootDone[p]
    /\ open_tags' = [open_tags EXCEPT ![p] = @ + 1]
    /\ start_pos' = PutStart(start_pos, name, text_len[p])
    /\ annotations' = AppendAttrs(annotations, name, attrs)
    /\ stack' = [stack EXCEPT ![p] = Append(MarkOver(@, name),
                    [name |-> name, id |-> nstarts + 1, off |-> text_len[p],
                     depth |-> open_tags'[p], level |-> Len(stack[p]) + 1,
                     content |-> <<>>, over |-> FALSE, dlo |-> -1, dhi |-> -1])]
    /\ ninst' = [ninst EXCEPT ![p][name] = @ + 1]
    /\ nevents' = nevents + 1
    /\ nstarts' = nstarts + 1
    /\ last' = [NoEvent EXCEPT !.kind = "start", !.p = p, !.name = name,
                               !.attrs = attrs, !.id = nstarts + 1]
    /\ prov' = ProvAttrs(prov, name, attrs, nstarts + 1)
    /\ seenAt' = [seenAt EXCEPT ![p] =
                      SeenAdd(@, {name} \cup AttrKeySet(name, attrs), nstarts + 1)]
    /\ firstIns' = LogAttrKeys(firstIns, name, attrs)
    /\ UNCHANGED <<text, text_len, pc, out, rootDone, wf, ownText>>

\* an endElement that also puts a separator after the closed element
endElementBodyWithSeparator(p, name) ==
    IF name \in DOMAIN start_pos
    THEN /\ annotations' = AnnAppend(annotations, name,
                                SpanOf(start_pos[name], open_tags[p], text_len[p]))
         /\ open_tags' = [open_tags EXCEPT ![p] = Dec(@)]
         /\ pc' = pc
         /\ text' = Append(text, <<" ">>)
         /\ text_len' = [text_len EXCEPT ![p] = @ + 1]
    ELSE /\ annotations' = DefaultGet(annotations, name)
         /\ open_tags' = open_tags
         /\ pc' = Raise(pc, p)
         /\ UNCHANGED <<text, text_len>>

\* the statement of SAXParser.endElement on the handler's state:
\* annotations[name] is looked up first (the defaultdict inserts a missing
\* key), then start_pos[name] raises KeyError when the name was never started
endElementBody(p, name) ==
    IF name \in DOMAIN start_pos
    THEN /\ annotations' = AnnAppend(annotations, name,
                                SpanOf(start_pos[name], open_tags[p], text_len[p]))
         /\ open_tags' = [open_tags EXCEPT ![p] = Dec(@)]
         /\ pc' = pc
         /\ UNCHANGED <<text, text_len>>
    ELSE /\ annotations' = DefaultGet(annotations, name)
         /\ open_tags' = open_tags
         /\ pc' = Raise(pc, p)
         /\ UNCHANGED <<text, text_len>>

\* SAXParser.endElement for the end tag of the innermost open element
endElement(p) ==
    /\ UNCHANGED svars
    /\ pc[p] = "parsing"
    /\ stack[p] # <<>>
    /\ LET top == stack[p][Len(stack[p])]
       IN  /\ endElementBody(p, top.name)
           /\ last' = [NoEvent EXCEPT !.kind = "end", !.p = p, !.name = top.name,
                          !.id = top.id, !.off = top.off, !.depth = top.depth,
                          !.level = top.level,
                          !.content = top.content,
                          !.over = top.over, !.dlo = top.dlo, !.dhi = top.dhi,
                          !.raised = (top.name \notin DOMAIN start_pos)]
           /\ prov' = IF top.name \in DOMAIN start_pos
                      THEN ProvAppend(prov, top.name, top.id) ELSE prov
    /\ stack' = [stack EXCEPT ![p] =
                    PopInto(@, @[Len(@)], start_pos[@[Len(@)].name], text_len[p])]
    /\ rootDone' = [rootDone EXCEPT ![p] = (Len(stack[p]) = 1)]
    /\ firstIns' = LogKey(firstIns, stack[p][Len(stack[p])].name)
    /\ UNCHANGED <<start_pos, out, wf, nevents, nstarts, seenAt, ownText, ninst>>

\* SAXParser.endElement called for a name with no unmatched start event
\* in this document (malformed input or a producer defect)
orphanEndElement(p, name) ==
    /\ UNCHANGED svars
    /\ pc[p] = "parsing"
    /\ nevents < MaxEvents
    /\ name \notin OpenNames(p)
    /\ endElementBody(p, name)
    /\ last' = [NoEvent EXCEPT !.kind = "orphan_end", !.p = p, !.name = name,
                   !.raised = (name \notin DOMAIN start_pos)]
    /\ prov' = IF name \in DOMAIN start_pos THEN ProvAppend(prov, name, 0) ELSE prov
    /\ wf' = [wf EXCEPT ![p] = FALSE]
    /\ nevents' = nevents + 1
    /\ firstIns' = LogKey(firstIns, name)
    /\ UNCHANGED <<start_pos, out, stack, rootDone, nstarts, seenAt, ownText,
                   ninst>>

\* SAXParser.characters
characters(p, content) ==
    /\ UNCHANGED svars
    /\ pc[p] = "parsing"
    /\ nevents < MaxEvents
    /\ stack[p] # <<>>
    /\ IF ~blank_pattern_match(content)
       THEN /\ text' = Append(text, content)
            /\ text_len' = [text_len EXCEPT ![p] = NewLen(@, content)]
            /\ ownText' = [ownText EXCEPT ![p] = @ \o content]
            /\ stack' = [stack EXCEPT ![p] =
                            [i \in 1..Len(@) |-> [@[i] EXCEPT !.content = @ \o content]]]
       ELSE UNCHANGED <<text, text_len, ownText, stack>>
    /\ nevents' = nevents + 1
    /\ last' = [NoEvent EXCEPT !.kind = "chars", !.p = p, !.chunk = content]
    /\ UNCHANGED <<annotations, start_pos, open_tags, pc, out, rootDone, wf,
                   nstarts, prov, seenAt, firstIns, ninst>>

\* parse, after SAX.parse has returned: Text.write, SourceStructure.write and
\* one Output.write per key
parseWrite(p) ==
    /\ UNCHANGED svars
    /\ pc[p] = "parsing"
    /\ stack[p] = <<>>
    /\ rootDone[p]
    /\ out' = [out EXCEPT ![p] = [text |-> getText,
                                  structure |-> Keys(annotations),
                                  annotations |-> annotations]]
    /\ pc' = [pc EXCEPT ![p] = "written"]
    /\ last' = [NoEvent EXCEPT !.kind = "write", !.p = p]
    /\ UNCHANGED <<text, annotations, start_pos, text_len, open_tags, stack,
                   rootDone, wf, nevents, nstarts, prov, seenAt, firstIns, ownText,
                   ninst>>

\* parse: SAX.parse raises SAXParseException for a document that is not
\* well-formed XML; the exception leaves parse
producerError(p) ==
    /\ UNCHANGED svars
    /\ pc[p] = "parsing"
    /\ nevents < MaxEvents
    /\ pc' = Raise(pc, p)
    /\ wf' = [wf EXCEPT ![p] = FALSE]
    /\ nevents' = nevents + 1
    /\ last' = [NoEvent EXCEPT !.kind = "error", !.p = p, !.raised = TRUE]
    /\ UNCHANGED <<text, annotations, start_pos, text_len, open_tags, out, stack,
                   rootDone, nstarts, prov, seenAt, firstIns, ownText, ninst>>

Next ==
    \/ \E p \in Parsers : Construct(p)
    \/ \E p \in Parsers, name \in Names, attrs \in AttrLists : startElement(p, name, attrs)
    \/ \E p \in Parsers : endElement(p)
    \/ \E p \in Parsers, name \in Names : orphanEndElement(p, name)
    \/ \E p \in Parsers, content \in Chunks : characters(p, content)
    \/ \E p \in Parsers : parseWrite(p)
    \/ \E p \in Parsers : producerError(p)

Spec == Init /\ [][Next]_vars

\* ------------------------------------------- actions of the structure pass

\* a handler instance is made (XMLStructure.XMLStructureHandler()) and
\* handed to SAX.parse; it sees the class-level annotations list
handlerConstruct(h) ==
    /\ gres.fn = "none"
    /\ hpc[h] = "new"
    /\ \A g \in Handlers : g < h => hpc[g] \in {"returned", "failed"}
    /\ hpc' = [hpc EXCEPT ![h] = "parsing"]
    /\ last' = [NoEvent EXCEPT !.kind = "h_construct", !.p = h]
    /\ UNCHANGED <<h_annotations, hdoc, hresult, gres>>
    /\ UNCHANGED pvars

\* XMLStructureHandler.startElement: a tag without attributes reaches
\* self.attributes, which no class defines, and raises AttributeError
handlerStartElement(h, name, attrs) ==
    /\ hpc[h] = "parsing"
    /\ Len(hdoc[h]) < MaxTags
    /\ IF attrs # <<>>
       THEN /\ h_annotations' = h_annotations \o AttrKeyList(name, attrs)
            /\ hpc' = hpc
       ELSE /\ h_annotations' = h_annotations
            /\ hpc' = [hpc EXCEPT ![h] = "failed"]
    /\ hdoc' = [hdoc EXCEPT ![h] = Append(@, [name |-> name, attrs |-> attrs])]
    /\ last' = [NoEvent EXCEPT !.kind = "h_start", !.p = h, !.name = name,
                               !.attrs = attrs, !.raised = (attrs = <<>>)]
    /\ UNCHANGED <<hresult, gres>>
    /\ UNCHANGED pvars

\* SAX.parse has returned; the caller reads handler.annotations
handlerReturn(h) ==
    /\ hpc[h] = "parsing"
    /\ hresult' = [hresult EXCEPT ![h] = h_annotations]
    /\ hpc' = [hpc EXCEPT ![h] = "returned"]
    /\ last' = [NoEvent EXCEPT !.kind = "h_return", !.p = h]
    /\ UNCHANGED <<h_annotations, hdoc, gres>>
    /\ UNCHANGED pvars

\* XMLStructure.get_file_annotations called on one file
get_file_annotations(file) ==
    /\ gres.fn = "none"
    /\ \A h \in Handlers : hpc[h] = "new"
    /\ LET r == GetFileAnnotations(file)
       IN  gres' = [fn |-> "get_file_annotations", files |-> <<file>>,
                    raised |-> r.raised, error |-> r.error, isNone |-> FALSE,
                    value |-> r.value]
    /\ last' = [NoEvent EXCEPT !.kind = "get_file_annotations"]
    /\ UNCHANGED <<h_annotations, hpc, hdoc, hresult>>
    /\ UNCHANGED pvars

\* XMLStructure.get_annotations: the loop over the files, and no return
\* statement after it, so a call that does not raise returns None
get_annotations(files) ==
    /\ gres.fn = "none"
    /\ \A h \in Handlers : hpc[h] = "new"
    /\ LET r == GetAnnotationsLoop(files, <<>>)
       IN  gres' = [fn |-> "get_annotations", files |-> files,
                    raised |-> r.raised, error |-> r.error,
                    isNone |-> ~r.raised, value |-> <<>>]
    /\ last' = [NoEvent EXCEPT !.kind = "get_annotations"]
    /\ UNCHANGED <<h_annotations, hpc, hdoc, hresult>>
    /\ UNCHANGED pvars

NextStructure ==
    \/ \E h \in Handlers : handlerConstruct(h)
    \/ \E h \in Handlers, name \in Names, attrs \in AttrLists :
            handlerStartElement(h, name, attrs)
    \/ \E h \in Handlers : handlerReturn(h)
    \/ \E file \in StructDocs : get_file_annotations(file)
    \/ \E files \in FileLists(MaxFiles) : get_annotations(files)

SpecStructure == Init /\ [][NextStructure]_vars

\* ---------------------------------------------------------- properties

\* the span appended by the event delivered last
LastSpan == LET v == Vals(annotations, last.name) IN v[Len(v)]

AllWellFormed == \A p \in Parsers : wf[p]

\* C1: the span appended by the end event of an element instance of a
\* well-formed document starts at the flattened-text offset of that
\* instance's own start event and ends at the offset of its end event, and
\* text[start:end] is the character content appended between the two tags,
\* also when the element is nested in an element of the same name.
C1_SpanPairedWithOwnStart ==
    (last.kind = "end" /\ wf[last.p]) =>
        /\ LastSpan[1][1] = last.off
        /\ LastSpan[2][1] = text_len[last.p]
        /\ SubSeq(getText, LastSpan[1][1] + 1, LastSpan[2][1]) = last.content

\* C2: an end event for a name with no unmatched start event makes
\* endElement fail, and appends no span under that name.
C2_OrphanEndFails ==
    [][last'.kind = "orphan_end" =>
          /\ pc'[last'.p] = "failed"
          /\ Vals(annotations', last'.name) = Vals(annotations, last'.name)]_vars

\* C3: a parser instance sees nothing of another document: a new instance
\* starts with empty text, no pending start and no annotation, and the text
\* parse writes for a document is the text of that document's own events.
C3_InstancesIsolated ==
    /\ last.kind = "construct" =>
          (getText = <<>> /\ annotations = <<>> /\ start_pos = <<>>)
    /\ \A p \in Parsers : pc[p] = "written" => out[p].text = ownText[p]

AllWhitespace(c) == \A i \in 1..Len(c) : c[i] \in Whitespace

\* C4: a characters event with an all-whitespace (or empty) chunk leaves the
\* flattened text and the offset unchanged; any other chunk is appended
\* verbatim at the end of the text and the offset grows by its length.
C4_CharactersAppendsNonBlank ==
    [][last'.kind = "chars" =>
          LET c == last'.chunk
              p == last'.p
          IN  IF AllWhitespace(c)
              THEN Join(text') = Join(text) /\ text_len'[p] = text_len[p]
              ELSE /\ Join(text') = Join(text) \o c
                   /\ text_len'[p] = text_len[p] + Len(c)]_vars

\* a chunk with whitespace inside real content has been appended verbatim
C4_Witness ==
    /\ last.kind = "chars"
    /\ last.chunk = <<"y", " ">>
    /\ Len(getText) >= 3
    /\ SubSeq(getText, Len(getText) - 1, Len(getText)) = <<"y", " ">>

\* C5: a start event appends each attribute value of the tag exactly once
\* to the list of name:attribute, leaves every other list as it was, and
\* appends nothing under the element name itself.
C5_StartAppendsAttributes ==
    [][last'.kind = "start" =>
          LET n == last'.name
              at == last'.attrs
          IN  /\ \A i \in 1..Len(at) :
                    Vals(annotations', AttrKey(n, at[i][1])) =
                        Append(Vals(annotations, AttrKey(n, at[i][1])), at[i][2])
              /\ Vals(annotations', n) = Vals(annotations, n)
              /\ \A k \in KeySet(annotations') \ AttrKeySet(n, at) :
                    Vals(annotations', k) = Vals(annotations, k)
              /\ KeySet(annotations') = KeySet(annotations) \cup AttrKeySet(n, at)]_vars

\* a start tag with two attributes inside an open element of the same name
C5_Witness ==
    /\ last.kind = "start"
    /\ last.name = "a"
    /\ Len(last.attrs) = 2
    /\ Len(stack[last.p]) = 2
    /\ stack[last.p][1].name = "a"
    /\ Vals(annotations, "a:id") # <<>>
    /\ Vals(annotations, "a:id2") # <<>>
    /\ Vals(annotations, "a") = <<>>

\* C6: for every key the values stored under it are in document order of
\* the elements that produced them, elements being ordered by their start
\* tags (prov holds, value by value, the start id of the producing element).
C6_ValuesInStartTagOrder ==
    AllWellFormed =>
        \A k \in DOMAIN prov :
            /\ Len(prov[k]) = Len(Vals(annotations, k))
            /\ \A i \in 1..Len(prov[k]), j \in 1..Len(prov[k]) :
                  i < j => prov[k][i] < prov[k][j]

\* C7: both depth markers of the span of an element of a well-formed
\* document are the value of open_tags right after the increment of its own
\* start event, that is its nesting level with the root at 1, and so one
\* more than the markers of its parent.
C7_DepthMarkers ==
    (last.kind = "end" /\ wf[last.p]) =>
        /\ LastSpan[1][2] = last.depth
        /\ LastSpan[2][2] = last.depth
        /\ last.depth = last.level
        /\ stack[last.p] # <<>> =>
              LastSpan[1][2] = stack[last.p][Len(stack[last.p])].depth + 1

\* a child of the root has been closed
C7_Witness ==
    /\ last.kind = "end"
    /\ wf[last.p]
    /\ last.level = 2
    /\ Len(stack[last.p]) = 1
    /\ LastSpan = SpanOf(LastSpan[1][1], 2, LastSpan[2][1])

SpanKeys == KeySet(annotations) \cap Names

\* C8: after well-formed event sequences every stored span has
\* 0 <= start offset <= end offset <= length of the flattened text.
C8_SpanOffsetsOrdered ==
    AllWellFormed =>
        \A k \in SpanKeys :
            \A i \in 1..Len(Vals(annotations, k)) :
                LET sp == Vals(annotations, k)[i]
                IN  /\ 0 <= sp[1][1]
                    /\ sp[1][1] <= sp[2][1]
                    /\ sp[2][1] <= Len(getText)

\* a span that starts after some text and is not empty
C8_Witness ==
    /\ AllWellFormed
    /\ \E k \in SpanKeys :
          \E i \in 1..Len(Vals(annotations, k)) :
              LET sp == Vals(annotations, k)[i]
              IN  0 < sp[1][1] /\ sp[1][1] < sp[2][1] /\ sp[2][1] = Len(getText)

\* C9: when parse has processed a well-formed document, the keys of the
\* parser's annotation store are exactly the element names and the
\* element:attribute pairs occurring in that document.
C9_KeysAreDocumentKeys ==
    (last.kind = "write" /\ AllWellFormed) =>
        KeySet(annotations) = docKeys(last.p)

C14_ErrorAbortsDocument ==
    /\ [](last.raised => pc[last.p] = "failed")
    /\ [](\A p \in Parsers : pc[p] = "failed" => out[p] = NoOutput)
    /\ [][\A p \in Parsers :
            pc[p] = "failed" =>
                /\ pc'[p] = "failed"
                /\ last'.p # p
                /\ out'[p] = out[p]
                /\ text_len'[p] = text_len[p]
                /\ open_tags'[p] = open_tags[p]
                /\ stack'[p] = stack[p]]_vars

\* the first document failed inside an open element, the second was written
C14_Witness ==
    /\ pc[1] = "failed"
    /\ open_tags[1] >= 1
    /\ stack[1] # <<>>
    /\ out[1] = NoOutput
    /\ pc[2] = "written"
    /\ out[2].structure # <<>>

IsPrefix(s1, s2) == Len(s1) <= Len(s2) /\ SubSeq(s2, 1, Len(s1)) = s1

\* C15: for every parser instance text_len equals the length of the text
\* getText() returns for it, and the text before an event is a prefix of
\* the text after it.
C15_TextLenIsTextLength ==
    /\ [](\A p \in Parsers : pc[p] # "new" => text_len[p] = Len(getText))
    /\ [][IsPrefix(Join(text), Join(text'))]_vars

EndKinds == {"end", "orphan_end"}

\* C16 as stated: open_tags goes up by one on every start event, down by
\* one on every end event and is changed by nothing else; in well-formed
\* sequences it is the number of open elements, never negative, and 0 when
\* the document ends.
C16_CounterStepsOnEveryEvent ==
    /\ [][\A p \in Parsers :
            open_tags'[p] =
                IF last'.p = p /\ last'.kind = "start" THEN open_tags[p] + 1
                ELSE IF last'.p = p /\ last'.kind \in EndKinds THEN open_tags[p] - 1
                ELSE open_tags[p]]_vars
    /\ [](\A p \in Parsers : wf[p] => open_tags[p] = Len(stack[p]))
    /\ [](last.kind = "write" /\ wf[last.p] => open_tags[last.p] = 0)

\* C16 as amended: as stated, but the counter goes down by one only on an
\* end event that endElement processes without raising; an end event that
\* raises leaves it unchanged.
C16_CounterStepsOnProcessedEvents ==
    /\ [][\A p \in Parsers :
            open_tags'[p] =
                IF last'.p = p /\ last'.kind = "start" THEN open_tags[p] + 1
                ELSE IF last'.p = p /\ last'.kind \in EndKinds /\ ~last'.raised
                     THEN open_tags[p] - 1
                ELSE open_tags[p]]_vars
    /\ [](\A p \in Parsers : wf[p] => open_tags[p] = Len(stack[p]))
    /\ [](last.kind = "write" /\ wf[last.p] => open_tags[last.p] = 0)

\* an element at depth 2 has closed and the counter is back at 1
C16_Witness ==
    /\ last.kind = "end"
    /\ wf[last.p]
    /\ last.depth = 2
    /\ open_tags[last.p] = 1
    /\ Len(stack[last.p]) = 1

\* C17: a characters event changes neither the pending starts nor the
\* depth counter nor the annotation store; a start event and an end event
\* change neither the flattened text nor the offset.
C17_EventsLeaveOtherStateAlone ==
    [][/\ last'.kind = "chars" =>
             (start_pos' = start_pos /\ open_tags' = open_tags
                 /\ annotations' = annotations)
       /\ last'.kind \in {"start"} \cup EndKinds =>
             (Join(text') = Join(text) /\ text' = text /\ text_len' = text_len)]_vars

\* text was appended inside an open element whose attributes are stored,
\* and the element then closed after the text
C17_Witness ==
    /\ last.kind = "end"
    /\ ~last.raised
    /\ last.content # <<>>
    /\ text_len[last.p] = Len(last.content)
    /\ start_pos # <<>>
    /\ Vals(annotations, AttrKey(last.name, "id")) # <<>>

\* C18: in a well-formed document the span of an element inside which no
\* element of the same name has opened (so of every element when no
\* element has a same-name ancestor) is exact: it starts at the offset of
\* its own start event, ends at the offset of its end event, and both depth
\* markers are its nesting depth; same-name siblings do not disturb this.
C18_SpanExactWithoutSameNameNesting ==
    (last.kind = "end" /\ wf[last.p] /\ ~last.over) =>
        LastSpan = << <<last.off, last.level>>, <<text_len[last.p], last.level>> >>

\* <a><b/>x<b/></a>: the second b starts at offset 1
C18_Witness ==
    /\ last.kind = "end"
    /\ wf[last.p]
    /\ ~last.over
    /\ last.name = "b"
    /\ last.off = 1
    /\ Vals(annotations, "b") = <<SpanOf(0, 2, 0), SpanOf(1, 2, 1)>>

\* C19: in a well-formed document the span of an element contains the
\* spans of its descendants: it starts no later than any of them and ends
\* no earlier.
C19_SpanContainsDescendants ==
    (last.kind = "end" /\ wf[last.p] /\ last.dlo >= 0) =>
        /\ LastSpan[1][1] <= last.dlo
        /\ last.dhi <= LastSpan[2][1]

\* C20: an end event that is processed appends exactly one span under its
\* name and changes no earlier value, so after a well-formed document the
\* number of spans under each element name is the number of elements of
\* that name in the document.
C20_OneSpanPerElement ==
    /\ [][(last'.kind \in EndKinds /\ ~last'.raised) =>
             /\ Len(Vals(annotations', last'.name)) =
                    Len(Vals(annotations, last'.name)) + 1
             /\ \A k \in KeySet(annotations) :
                    IsPrefix(Vals(annotations, k), Vals(annotations', k))
             /\ \A k \in KeySet(annotations') \ {last'.name} :
                    Vals(annotations', k) = Vals(annotations, k)]_vars
    /\ []((last.kind = "write" /\ AllWellFormed) =>
             \A n \in Names : Len(Vals(annotations, n)) = ninst[last.p][n])

\* the keys one start tag stands for: the element name when it has no
\* attributes, each element:attribute pair when it has
TagKeys(tag) ==
    IF tag.attrs = <<>> THEN <<tag.name>> ELSE AttrKeyList(tag.name, tag.attrs)

RECURSIVE DocKeyList(_)
DocKeyList(doc) ==
    IF doc = <<>> THEN <<>> ELSE TagKeys(Head(doc)) \o DocKeyList(Tail(doc))

SeqSet(sq) == {sq[i] : i \in 1..Len(sq)}

FilesKeySet(files) == UNION {SeqSet(DocKeyList(files[i])) : i \in 1..Len(files)}

\* C11: the structure pass records for each start tag the element name
\* when the tag has no attributes and each element:attribute pair when it
\* has, and get_annotations returns the distinct keys of all input files.
C11_DiscoveryReturnsKeys ==
    /\ [][last'.kind = "h_start" =>
             /\ ~last'.raised
             /\ h_annotations' = h_annotations \o
                    TagKeys([name |-> last'.name, attrs |-> last'.attrs])]_vars
    /\ [](gres.fn = "get_annotations" =>
             /\ ~gres.raised
             /\ ~gres.isNone
             /\ SeqSet(gres.value) = FilesKeySet(gres.files))

\* C12: a list the structure pass produces holds, for every
\* element:attribute entry, the plain element name as well.
C12_PlainNamesIncluded ==
    \A h \in Handlers :
        hpc[h] = "returned" =>
            \A n \in Names, at \in AttrLists :
                \A i \in 1..Len(at) :
                    InSeq(hresult[h], AttrKey(n, at[i][1])) => InSeq(hresult[h], n)

\* C13: two runs of the structure pass on the same document, each with a
\* new handler, give the same ordered keys, and the result of a run holds
\* the keys of its own document only.
C13_DiscoveryRepeatable ==
    /\ \A g \in Handlers, h \in Handlers :
          (hpc[g] = "returned" /\ hpc[h] = "returned" /\ hdoc[g] = hdoc[h]) =>
              hresult[g] = hresult[h]
    /\ \A h \in Handlers :
          hpc[h] = "returned" => hresult[h] = DocKeyList(hdoc[h])
====
